---- MODULE Spec2Model ----
(***************************************************************************)
(* Model of the type checker in src/bam/src/types.rs: check walks the      *)
(* machine definitions of a program in source order; for each one it       *)
(* installs a placeholder scheme, walks the statements and the result      *)
(* expression generating equality constraints, solves them with unify and  *)
(* commits the generalized scheme to the global environment.               *)
(***************************************************************************)
EXTENDS Naturals, Sequences, FiniteSets, TLC

VARIABLES
    machine_types,   \* GlobalTypeEnv.machine_types : name -> MachineType
    machine,         \* the Definition check_machine_def is working on
    local_env,       \* LocalTypeEnv of the current definition
    subst,           \* the substitution unify is building
    pc,              \* position of check / check_machine_def
    idx,             \* number of definitions taken from program.machines
    si,              \* number of body statements already checked
    ci,              \* number of constraints already unified
    error,           \* operands of the CannotUnify error returned, if any
    literal_result   \* per committed definition: the primitive type of its
                     \* literal result when it has one and never calls itself

vars == <<machine_types, machine, local_env, subst, pc, idx, si, ci, error,
          literal_result>>

-----------------------------------------------------------------------------
(* Bounds of the model *)

MaxDefs == 2        \* definitions in a program
MaxBody == 2        \* statements in a definition body
StackDepth == 24    \* recursion depth after which a call never returns

-----------------------------------------------------------------------------
(* enum Type *)

Num == [k |-> "Num", i |-> 0, tys |-> <<>>]
Bool == [k |-> "Bool", i |-> 0, tys |-> <<>>]
String == [k |-> "String", i |-> 0, tys |-> <<>>]
Tuple(ts) == [k |-> "Tuple", i |-> 0, tys |-> ts]
TyVar(n) == [k |-> "TyVar", i |-> n, tys |-> <<>>]
UnifVar(n) == [k |-> "UnifVar", i |-> n, tys |-> <<>>]

Primitive == {"Num", "Bool", "String"}

MachineType(n, in, out) == [var_count |-> n, input |-> in, output |-> out]

(* HashMap helpers *)
EmptyMap == [x \in {} |-> Num]
Insert(map, key, val) ==
    [x \in (DOMAIN map) \cup {key} |-> IF x = key THEN val ELSE map[x]]

(* lazy_static BUILTIN_MAP *)
BUILTIN_MAP ==
    [b \in {"Add", "Mul", "Mod", "Pow", "Sqrt", "Gte", "Lt", "Eq", "Dup2",
            "Dup3", "Print"} |->
        CASE b \in {"Add", "Mul", "Mod", "Pow"} ->
                MachineType(0, Tuple(<<Num, Num>>), Num)
          [] b = "Sqrt" -> MachineType(0, Tuple(<<Num>>), Num)
          [] b \in {"Gte", "Lt"} -> MachineType(0, Tuple(<<Num, Num>>), Bool)
          [] b = "Eq" -> MachineType(1, Tuple(<<TyVar(0), TyVar(0)>>), Bool)
          [] b = "Dup2" -> MachineType(1, TyVar(0), Tuple(<<TyVar(0), TyVar(0)>>))
          [] b = "Dup3" ->
                MachineType(1, TyVar(0), Tuple(<<TyVar(0), TyVar(0), TyVar(0)>>))
          [] b = "Print" -> MachineType(1, TyVar(0), TyVar(0))]

-----------------------------------------------------------------------------
(* Abstract syntax consumed by the checker (crate::syntax) *)

NoMachine == [m |-> "None", name |-> ""]
MVar(n) == [m |-> "Var", name |-> n]
MBuiltin(b) == [m |-> "Builtin", name |-> b]
MDefined == [m |-> "Defined", name |-> ""]

SVar(n) == [s |-> "Var", name |-> n, args |-> <<>>, to |-> NoMachine]
SConst(v) == [s |-> "Const", name |-> v, args |-> <<>>, to |-> NoMachine]
Pipe(st, m) == [s |-> "Pipe", name |-> "", args |-> <<st>>, to |-> m]
Zip(sts) == [s |-> "Zip", name |-> "", args |-> sts, to |-> NoMachine]
Cond(c, t, e) == [s |-> "Cond", name |-> "", args |-> <<c, t, e>>, to |-> NoMachine]
Limit(st) == [s |-> "Limit", name |-> "", args |-> <<st>>, to |-> NoMachine]
Unzip(st) == [s |-> "Unzip", name |-> "", args |-> <<st>>, to |-> NoMachine]

Consume(st) == [st |-> "Consume", vars |-> <<>>, stream |-> st]
Let(names, st) == [st |-> "Let", vars |-> names, stream |-> st]

Definition(n, b, r) == [name |-> n, body |-> b, result |-> r]

-----------------------------------------------------------------------------
(* LocalTypeEnv *)

LocalTypeEnv(vt, cs, n) ==
    [var_types |-> vt, unification_constraints |-> cs, last_unification_var |-> n]

PushConstraint(env, t1, t2) ==
    [env EXCEPT !.unification_constraints = Append(@, <<t1, t2>>)]

(* new_unif_var: the variable handed out and the environment after it *)
NewUnifVar(env) ==
    [ty |-> UnifVar(env.last_unification_var),
     env |-> [env EXCEPT !.last_unification_var = @ + 1]]

RECURSIVE ReplaceTyVar(_, _, _)
ReplaceTyVar(ty, var, to_replace) ==
    CASE ty.k \in Primitive \cup {"UnifVar"} -> ty
      [] ty.k = "TyVar" -> IF ty.i = var THEN to_replace ELSE ty
      [] ty.k = "Tuple" ->
            Tuple([j \in DOMAIN ty.tys |-> ReplaceTyVar(ty.tys[j], var, to_replace)])

(* the tuple arm of replace_unif_var recurses into replace_ty_var *)
ReplaceUnifVar(ty, var, to_replace) ==
    CASE ty.k \in Primitive \cup {"TyVar"} -> ty
      [] ty.k = "UnifVar" -> IF ty.i = var THEN to_replace ELSE ty
      [] ty.k = "Tuple" ->
            Tuple([j \in DOMAIN ty.tys |-> ReplaceTyVar(ty.tys[j], var, to_replace)])

(* the rfold of instantiate: quantifier n-1 first, quantifier 0 last;      *)
(* quantifier j is replaced by the fresh variable base + j                 *)
RECURSIVE InstFold(_, _, _)
InstFold(ty, base, n) ==
    IF n = 0 THEN ty
    ELSE InstFold(ReplaceTyVar(ty, n - 1, UnifVar(base + n - 1)), base, n - 1)

(* the fresh variables are handed out without advancing the counter *)
MutInstantiateShared(env, machine_ty) ==
    [ty |-> MachineType(0,
                InstFold(machine_ty.input, env.last_unification_var,
                         machine_ty.var_count),
                InstFold(machine_ty.output, env.last_unification_var,
                         machine_ty.var_count)),
     env |-> env]

Instantiate(env, machine_ty) ==
    [ty |-> MachineType(0,
                InstFold(machine_ty.input, env.last_unification_var,
                         machine_ty.var_count),
                InstFold(machine_ty.output, env.last_unification_var,
                         machine_ty.var_count)),
     env |-> [env EXCEPT !.last_unification_var = @ + machine_ty.var_count]]

(* get_builtin_ty *)
GetBuiltinTy(b) == IF b \in DOMAIN BUILTIN_MAP THEN <<BUILTIN_MAP[b]>> ELSE <<>>

(* an unbound machine name is given a monomorphic scheme instead of a panic *)
MutLookupMachineDefault(genv, m) ==
    CASE m.m = "Var" ->
            IF m.name \in DOMAIN genv THEN <<genv[m.name]>>
            ELSE <<MachineType(0, UnifVar(0), UnifVar(1))>>
      [] m.m = "Builtin" -> GetBuiltinTy(m.name)
      [] OTHER -> <<>>

(* the match on the machine of a Pipe: <<scheme>>, or <<>> where the code panics *)
LookupMachine(genv, m) ==
    CASE m.m = "Var" -> IF m.name \in DOMAIN genv THEN <<genv[m.name]>> ELSE <<>>
      [] m.m = "Builtin" -> GetBuiltinTy(m.name)
      [] OTHER -> <<>>

Panicked(env) == [ty |-> Num, env |-> env, panic |-> TRUE]
Inferred(ty, env) == [ty |-> ty, env |-> env, panic |-> FALSE]

RECURSIVE InferStream(_, _, _), InferStreams(_, _, _, _, _)
InferStream(genv, env, stream) ==
    CASE stream.s = "Var" ->
            IF stream.name \in DOMAIN env.var_types
            THEN Inferred(env.var_types[stream.name], env)
            ELSE Panicked(env)
      [] stream.s = "Const" ->
            CASE stream.name = "Null" ->
                    LET v == NewUnifVar(env) IN Inferred(v.ty, v.env)
              [] stream.name = "Num" -> Inferred(Num, env)
              [] stream.name = "Str" -> Inferred(String, env)
              [] stream.name = "Bool" -> Inferred(Bool, env)
              [] OTHER -> Panicked(env)
      [] stream.s = "Pipe" ->
            LET up == InferStream(genv, env, stream.args[1])
                found == LookupMachine(genv, stream.to)
            IN  IF up.panic \/ found = <<>> THEN Panicked(up.env)
                ELSE LET inst == Instantiate(up.env, found[1])
                     IN  Inferred(inst.ty.output,
                                  PushConstraint(inst.env, inst.ty.input, up.ty))
      [] stream.s = "Zip" -> InferStreams(genv, env, stream.args, 1, <<>>)
      [] stream.s = "Cond" ->
            LET c == InferStream(genv, env, stream.args[1])
                envc == PushConstraint(c.env, c.ty, Bool)
                t == InferStream(genv, envc, stream.args[2])
                e == InferStream(genv, t.env, stream.args[3])
            IN  IF c.panic THEN Panicked(c.env)
                ELSE IF t.panic THEN Panicked(t.env)
                ELSE IF e.panic THEN Panicked(e.env)
                ELSE Inferred(t.ty, PushConstraint(e.env, t.ty, e.ty))
      [] stream.s = "Limit" -> InferStream(genv, env, stream.args[1])
      [] OTHER -> Panicked(env)

InferStreams(genv, env, streams, j, tys) ==
    IF j > Len(streams) THEN Inferred(Tuple(tys), env)
    ELSE LET r == InferStream(genv, env, streams[j])
         IN  IF r.panic THEN Panicked(r.env)
             ELSE InferStreams(genv, r.env, streams, j + 1, Append(tys, r.ty))

(* the destructuring arm of Let: one fresh variable per name, in order *)
RECURSIVE BindFresh(_, _, _, _)
BindFresh(env, names, j, tys) ==
    IF j > Len(names) THEN [env |-> env, tys |-> tys]
    ELSE LET v == NewUnifVar(env)
         IN  BindFresh(v.env, names, j + 1, Append(tys, v.ty))

RECURSIVE InsertVars(_, _, _, _)
InsertVars(vt, names, tys, j) ==
    IF j > Len(names) THEN vt
    ELSE InsertVars(Insert(vt, names[j], tys[j]), names, tys, j + 1)

CheckStatement(genv, env, statement) ==
    LET r == InferStream(genv, env, statement.stream)
    IN  IF r.panic THEN [env |-> r.env, panic |-> TRUE]
        ELSE IF statement.st = "Consume" THEN [env |-> r.env, panic |-> FALSE]
        ELSE IF Len(statement.vars) = 1
        THEN [env |-> [r.env EXCEPT !.var_types = Insert(@, statement.vars[1], r.ty)],
              panic |-> FALSE]
        ELSE LET b == BindFresh(r.env, statement.vars, 1, <<>>)
                 bound == [b.env EXCEPT
                              !.var_types = InsertVars(@, statement.vars, b.tys, 1)]
             IN  [env |-> PushConstraint(bound, Tuple(b.tys), r.ty),
                  panic |-> FALSE]

-----------------------------------------------------------------------------
(* Unification *)

Solved(s) == [res |-> "ok", subst |-> s, pair |-> <<>>]
Failed(s, t1, t2) == [res |-> "err", subst |-> s, pair |-> <<t1, t2>>]
Overflow(s) == [res |-> "overflow", subst |-> s, pair |-> <<>>]

(* a bound variable is overwritten instead of chased *)
RECURSIVE MutUnifyTypesRebind(_, _, _, _), MutUnifyTuplesRebind(_, _, _, _, _)
MutUnifyTypesRebind(s, ty1, ty2, depth) ==
    IF depth = 0 THEN Overflow(s)
    ELSE IF ty1.k \in Primitive /\ ty1.k = ty2.k THEN Solved(s)
    ELSE IF ty1.k = "TyVar" /\ ty2.k = "TyVar" /\ ty1.i = ty2.i THEN Solved(s)
    ELSE IF ty1.k = "Tuple" /\ ty2.k = "Tuple" /\ Len(ty1.tys) = Len(ty2.tys)
    THEN MutUnifyTuplesRebind(s, ty1.tys, ty2.tys, 1, depth - 1)
    ELSE IF ty1.k = "UnifVar" THEN Solved(Insert(s, ty1.i, ty2))
    ELSE IF ty2.k = "UnifVar" THEN MutUnifyTypesRebind(s, ty2, ty1, depth - 1)
    ELSE Failed(s, ty1, ty2)

MutUnifyTuplesRebind(s, tys1, tys2, j, depth) ==
    IF j > Len(tys1) THEN Solved(s)
    ELSE LET r == MutUnifyTypesRebind(s, tys1[j], tys2[j], depth)
         IN  IF r.res # "ok" THEN r
             ELSE MutUnifyTuplesRebind(r.subst, tys1, tys2, j + 1, depth)

(* unify_types; depth is the stack left: a recursion that exhausts it      *)
(* never returns                                                           *)
RECURSIVE UnifyTypes(_, _, _, _), UnifyTuples(_, _, _, _, _)
UnifyTypes(s, ty1, ty2, depth) ==
    IF depth = 0 THEN Overflow(s)
    ELSE IF ty1.k \in Primitive /\ ty1.k = ty2.k THEN Solved(s)
    ELSE IF ty1.k = "TyVar" /\ ty2.k = "TyVar" /\ ty1.i = ty2.i THEN Solved(s)
    ELSE IF ty1.k = "Tuple" /\ ty2.k = "Tuple" /\ Len(ty1.tys) = Len(ty2.tys)
    THEN UnifyTuples(s, ty1.tys, ty2.tys, 1, depth - 1)
    ELSE IF ty1.k = "UnifVar"
    THEN IF ty1.i \in DOMAIN s
         THEN UnifyTypes(s, s[ty1.i], ty2, depth - 1)
         ELSE Solved(Insert(s, ty1.i, ty2))
    ELSE IF ty2.k = "UnifVar" THEN UnifyTypes(s, ty2, ty1, depth - 1)
    ELSE Failed(s, ty1, ty2)

UnifyTuples(s, tys1, tys2, j, depth) ==
    IF j > Len(tys1) THEN Solved(s)
    ELSE LET r == UnifyTypes(s, tys1[j], tys2[j], depth)
         IN  IF r.res # "ok" THEN r
             ELSE UnifyTuples(r.subst, tys1, tys2, j + 1, depth)

-----------------------------------------------------------------------------
(* Generalization *)

(* free_unif_vars: [ok, vars]; ok is FALSE when the traversal never returns *)
RECURSIVE FreeUnifVars(_, _, _, _), FreeUnifVarsOfTuple(_, _, _, _, _)
FreeUnifVars(s, result, ty, depth) ==
    IF depth = 0 THEN [ok |-> FALSE, vars |-> result]
    ELSE CASE ty.k = "UnifVar" ->
                IF ty.i \in DOMAIN s
                THEN FreeUnifVars(s, result, s[ty.i], depth - 1)
                ELSE [ok |-> TRUE, vars |-> Append(result, ty.i)]
           [] ty.k \in Primitive \cup {"TyVar"} -> [ok |-> TRUE, vars |-> result]
           [] ty.k = "Tuple" -> FreeUnifVarsOfTuple(s, result, ty.tys, 1, depth - 1)

FreeUnifVarsOfTuple(s, result, tys, j, depth) ==
    IF j > Len(tys) THEN [ok |-> TRUE, vars |-> result]
    ELSE LET r == FreeUnifVars(s, result, tys[j], depth)
         IN  IF ~r.ok THEN r
             ELSE FreeUnifVarsOfTuple(s, r.vars, tys, j + 1, depth)

(* the rfold of generalize: the last recorded variable first; the variable *)
(* recorded at position j (from 0) is replaced by TyVar(j)                 *)
RECURSIVE GenFold(_, _, _)
GenFold(ty, free_vars, n) ==
    IF n = 0 THEN ty
    ELSE GenFold(ReplaceUnifVar(ty, free_vars[n], TyVar(n - 1)), free_vars, n - 1)

(* generalize: [ok, ty]; ok is FALSE when free_unif_vars never returns *)
Generalize(s, machine_ty) ==
    LET fin == FreeUnifVars(s, <<>>, machine_ty.input, StackDepth)
        fout == FreeUnifVars(s, fin.vars, machine_ty.output, StackDepth)
    IN  IF ~fin.ok \/ ~fout.ok THEN [ok |-> FALSE, ty |-> machine_ty]
        ELSE [ok |-> TRUE,
              ty |-> MachineType(Len(fout.vars),
                        GenFold(machine_ty.input, fout.vars, Len(fout.vars)),
                        GenFold(machine_ty.output, fout.vars, Len(fout.vars)))]

-----------------------------------------------------------------------------
(* The programs handed to check *)

DefNames == <<"A", "B", "C", "D">>
NameOf(n) == DefNames[n]

StmtPool(self, later) ==
    { Let(<<"x">>, SConst("Null")),
      Let(<<"x">>, Pipe(SConst("Num"), MVar("A"))),
      Consume(Pipe(SConst("Num"), MVar(self))),
      Consume(Pipe(SConst("Str"), MVar(self))),
      Consume(Pipe(SVar("x"), MVar(self))),
      Let(<<"d">>, Pipe(SConst("Num"), MBuiltin("Dup2"))),
      Let(<<"e">>, Pipe(SConst("Str"), MBuiltin("Dup2"))),
      Consume(Pipe(SConst("Num"), MVar(later))),
      Consume(Cond(SConst("Bool"), SVar("x"), SVar("x"))),
      Let(<<"x", "y">>, Zip(<<SConst("Null"), SConst("Null")>>)),
      Consume(Zip(<<Cond(SConst("Bool"), SVar("x"), SVar("y")),
                    Cond(SConst("Bool"), SVar("y"), SVar("x"))>>)) }

ResultPool(self) ==
    { SConst("Num"),
      SVar("x"),
      Pipe(SConst("Num"), MBuiltin("Sqrt")),
      Pipe(SConst("Null"), MVar(self)),
      Cond(SVar("x"), SConst("Bool"), SConst("Bool")) }

Bodies(self, later) ==
    UNION {[1..n -> StmtPool(self, later)] : n \in 0..MaxBody}

(* whether a stream pipes into the machine called name *)
RECURSIVE Calls(_, _)
Calls(stream, name) ==
    \/ stream.s = "Pipe" /\ stream.to = MVar(name)
    \/ \E j \in DOMAIN stream.args : Calls(stream.args[j], name)

DefCalls(def, name) ==
    \/ Calls(def.result, name)
    \/ \E j \in DOMAIN def.body : Calls(def.body[j].stream, name)

LiteralKind(def) ==
    IF def.result.s = "Const" /\ ~DefCalls(def, def.name)
    THEN CASE def.result.name = "Num" -> "Num"
           [] def.result.name = "Str" -> "String"
           [] def.result.name = "Bool" -> "Bool"
           [] OTHER -> "none"
    ELSE "none"

-----------------------------------------------------------------------------
(* check and check_machine_def *)

NoDefinition == Definition("", <<>>, SConst("Null"))

Init ==
    /\ machine_types = EmptyMap
    /\ machine = NoDefinition
    /\ local_env = LocalTypeEnv(EmptyMap, <<>>, 0)
    /\ subst = EmptyMap
    /\ pc = "next"
    /\ idx = 0
    /\ si = 0
    /\ ci = 0
    /\ error = <<>>
    /\ literal_result = EmptyMap

(* the loop of check goes on after a definition returned an error *)
MutMayCheckNextAfterErr == pc \in {"next", "err"}

(* the for loop of check is reached again only when the previous           *)
(* check_machine_def returned Ok                                           *)
MayCheckNext == pc = "next"

(* the placeholder quantifies over its input *)
MutPlaceholderPolymorphic == MachineType(1, TyVar(0), UnifVar(1))

(* the scheme check_machine_def installs before it walks the body *)
PlaceholderScheme == MachineType(0, UnifVar(0), UnifVar(1))

(* check takes the next definition; check_machine_def builds the local    *)
(* environment and installs the placeholder                                *)
StartDef ==
    /\ MayCheckNext
    /\ idx < MaxDefs
    /\ \E body \in Bodies(NameOf(idx + 1), NameOf(idx + 2)),
          result \in ResultPool(NameOf(idx + 1)) :
            machine' = Definition(NameOf(idx + 1), body, result)
    /\ local_env' = LocalTypeEnv(EmptyMap, <<>>, 2)
    /\ machine_types' = Insert(machine_types, NameOf(idx + 1), PlaceholderScheme)
    /\ subst' = EmptyMap
    /\ pc' = "body"
    /\ idx' = idx + 1
    /\ si' = 0
    /\ ci' = 0
    /\ UNCHANGED <<error, literal_result>>

(* one iteration of the loop over machine.body *)
CheckStatementStep ==
    /\ pc = "body"
    /\ si < Len(machine.body)
    /\ LET r == CheckStatement(machine_types, local_env, machine.body[si + 1])
       IN  /\ local_env' = r.env
           /\ pc' = IF r.panic THEN "panic" ELSE "body"
    /\ si' = si + 1
    /\ UNCHANGED <<machine_types, machine, subst, idx, ci, error, literal_result>>

(* the result expression and the constraint on the placeholder output *)
InferResult ==
    /\ pc = "body"
    /\ si = Len(machine.body)
    /\ LET r == InferStream(machine_types, local_env, machine.result)
       IN  IF r.panic
           THEN /\ pc' = "panic"
                /\ local_env' = r.env
           ELSE /\ pc' = "unify"
                /\ local_env' = PushConstraint(r.env, PlaceholderScheme.output, r.ty)
    /\ UNCHANGED <<machine_types, machine, subst, idx, si, ci, error, literal_result>>

(* one iteration of the loop of unify *)
UnifyStep ==
    /\ pc = "unify"
    /\ ci < Len(local_env.unification_constraints)
    /\ LET c == local_env.unification_constraints[ci + 1]
           r == UnifyTypes(subst, c[1], c[2], StackDepth)
       IN  /\ subst' = r.subst
           /\ pc' = CASE r.res = "ok" -> "unify"
                      [] r.res = "err" -> "err"
                      [] OTHER -> "overflow"
           /\ error' = r.pair
    /\ ci' = ci + 1
    /\ UNCHANGED <<machine_types, machine, local_env, idx, si, literal_result>>

(* unify returned Ok: generalize and commit; check_machine_def returns and *)
(* its local environment and substitution go out of scope                  *)
GeneralizeStep ==
    /\ pc = "unify"
    /\ ci = Len(local_env.unification_constraints)
    /\ LET g == Generalize(subst, PlaceholderScheme)
       IN  IF g.ok
           THEN /\ machine_types' = Insert(machine_types, machine.name, g.ty)
                /\ literal_result' =
                       Insert(literal_result, machine.name, LiteralKind(machine))
                /\ pc' = "next"
                /\ machine' = NoDefinition
                /\ local_env' = LocalTypeEnv(EmptyMap, <<>>, 0)
                /\ subst' = EmptyMap
                /\ si' = 0
                /\ ci' = 0
           ELSE /\ pc' = "overflow"
                /\ UNCHANGED <<machine_types, literal_result, machine, local_env,
                               subst, si, ci>>
    /\ UNCHANGED <<idx, error>>

(* program.machines is exhausted: check returns Ok(()) *)
ReturnOk ==
    /\ MayCheckNext
    /\ pc' = "ok"
    /\ UNCHANGED <<machine_types, machine, local_env, subst, idx, si, ci, error,
                   literal_result>>

Next ==
    \/ StartDef
    \/ CheckStatementStep
    \/ InferResult
    \/ UnifyStep
    \/ GeneralizeStep
    \/ ReturnOk

Spec == Init /\ [][Next]_vars

-----------------------------------------------------------------------------
(* Vocabulary of the properties *)

RECURSIVE HasUnifVar(_)
HasUnifVar(ty) ==
    \/ ty.k = "UnifVar"
    \/ \E j \in DOMAIN ty.tys : HasUnifVar(ty.tys[j])

(* whether following bindings from ty comes back to a variable already followed *)
RECURSIVE Loops(_, _, _)
Loops(s, ty, seen) ==
    CASE ty.k = "UnifVar" ->
            IF ty.i \in seen THEN TRUE
            ELSE IF ty.i \in DOMAIN s THEN Loops(s, s[ty.i], seen \cup {ty.i})
            ELSE FALSE
      [] ty.k = "Tuple" -> \E j \in DOMAIN ty.tys : Loops(s, ty.tys[j], seen)
      [] OTHER -> FALSE

Acyclic(s) == \A a \in DOMAIN s : ~Loops(s, UnifVar(a), {})

(* ty with every inference variable followed to its terminal form *)
RECURSIVE DeepResolve(_, _)
DeepResolve(s, ty) ==
    CASE ty.k = "UnifVar" ->
            IF ty.i \in DOMAIN s THEN DeepResolve(s, s[ty.i]) ELSE ty
      [] ty.k = "Tuple" -> Tuple([j \in DOMAIN ty.tys |-> DeepResolve(s, ty.tys[j])])
      [] OTHER -> ty

RECURSIVE MachineRefs(_)
MachineRefs(stream) ==
    (IF stream.s = "Pipe" /\ stream.to.m = "Var" THEN {stream.to.name} ELSE {})
        \cup UNION {MachineRefs(stream.args[j]) : j \in DOMAIN stream.args}

DefRefs(def) ==
    MachineRefs(def.result)
        \cup UNION {MachineRefs(def.body[j].stream) : j \in DOMAIN def.body}

NamesUpTo(n) == {NameOf(j) : j \in 1..n}

Constraints == local_env.unification_constraints
UnifyReturnedOk == pc = "unify" /\ ci = Len(Constraints)

(* statement j of body is the last one that binds its single name *)
LastSingleLet(body, j) ==
    /\ body[j].st = "Let"
    /\ Len(body[j].vars) = 1
    /\ \A n \in DOMAIN body :
          n > j => \A m \in DOMAIN body[n].vars : body[n].vars[m] # body[j].vars[1]

ConstType(name) ==
    CASE name = "Num" -> Num
      [] name = "Str" -> String
      [] name = "Bool" -> Bool

(* the literals a definition's body statements pipe into the definition itself *)
SelfPipedLiterals(def) ==
    {def.body[j].stream.args[1].name : j \in
        {n \in DOMAIN def.body :
            /\ def.body[n].stream.s = "Pipe"
            /\ def.body[n].stream.to = MVar(def.name)
            /\ def.body[n].stream.args[1].s = "Const"
            /\ def.body[n].stream.args[1].name \in {"Num", "Str", "Bool"}}}

-----------------------------------------------------------------------------
(* Properties *)

(* C1: inside a definition B, a stream piped into an earlier definition A  *)
(* whose result is a literal of primitive type P (and which never calls    *)
(* itself) has type P: once B's constraints are solved, a name bound to    *)
(* such a pipe resolves to P.                                              *)
C1_PipeIntoEarlierHasItsResultType ==
    (UnifyReturnedOk /\ Acyclic(subst)) =>
        \A j \in DOMAIN machine.body :
            LET st == machine.body[j] IN
            (/\ LastSingleLet(machine.body, j)
             /\ st.stream.s = "Pipe"
             /\ st.stream.to.m = "Var"
             /\ st.stream.to.name # machine.name
             /\ st.stream.to.name \in DOMAIN literal_result
             /\ literal_result[st.stream.to.name] # "none")
            => DeepResolve(subst, local_env.var_types[st.vars[1]]).k
                   = literal_result[st.stream.to.name]

(* C2: the scheme committed for a successfully checked definition holds    *)
(* no inference variable in its input or its output.                       *)
C2_CommittedSchemesHaveNoUnifVar ==
    \A n \in DOMAIN literal_result :
        /\ ~HasUnifVar(machine_types[n].input)
        /\ ~HasUnifVar(machine_types[n].output)

(* C3: when the placeholder's input and output both resolve to the same    *)
(* unbound inference variable, the committed scheme has one and the same   *)
(* bound variable in input and output position.                            *)
C3_GeneralizePreservesSharing ==
    [][(/\ UnifyReturnedOk
        /\ pc' = "next"
        /\ DeepResolve(subst, PlaceholderScheme.input).k = "UnifVar"
        /\ DeepResolve(subst, PlaceholderScheme.input)
              = DeepResolve(subst, PlaceholderScheme.output))
       => /\ machine_types'[machine.name].input.k = "TyVar"
          /\ machine_types'[machine.name].input
                = machine_types'[machine.name].output]_vars

(* C4: a definition whose body pipes literals of two different primitive   *)
(* types into its own name is never accepted: unify never gets past the    *)
(* second of the two constraints on the placeholder input, check does not  *)
(* go on to commit the definition or return Ok, and the error it returns   *)
(* is CannotUnify of the two primitives.                                   *)
C4_SelfRecursionIsMonomorphic ==
    /\ pc = "unify" =>
          Cardinality({Constraints[j][2].k : j \in
              {n \in 1..ci : /\ Constraints[n][1] = PlaceholderScheme.input
                            /\ Constraints[n][2].k \in Primitive}}) <= 1
    /\ Cardinality(SelfPipedLiterals(machine)) >= 2 =>
          /\ pc \in {"body", "unify", "err", "panic", "overflow"}
          /\ ~UnifyReturnedOk
          /\ pc = "err" => /\ Len(error) = 2
                           /\ error[1].k \in Primitive
                           /\ error[2].k \in Primitive
                           /\ error[1] # error[2]

C4_Witness ==
    /\ pc = "err"
    /\ SelfPipedLiterals(machine) = {"Num", "Str"}
    /\ error = <<Num, String>>

(* C5: every use of Dup2 gets its own fresh variable: a name bound to a    *)
(* literal of primitive type P piped into Dup2 resolves to Tuple([P, P]),  *)
(* and a body made only of such uses, with a literal result, checks.       *)
IsDup2OfLiteral(st) ==
    /\ st.st = "Let"
    /\ Len(st.vars) = 1
    /\ st.stream.s = "Pipe"
    /\ st.stream.to = MBuiltin("Dup2")
    /\ st.stream.args[1].s = "Const"
    /\ st.stream.args[1].name \in {"Num", "Str", "Bool"}

C5_Dup2FreshPerUse ==
    /\ (UnifyReturnedOk /\ Acyclic(subst)) =>
          \A j \in DOMAIN machine.body :
              (LastSingleLet(machine.body, j) /\ IsDup2OfLiteral(machine.body[j]))
              => LET p == ConstType(machine.body[j].stream.args[1].name)
                 IN  DeepResolve(subst, local_env.var_types[machine.body[j].vars[1]])
                        = Tuple(<<p, p>>)
    /\ (/\ machine.name # ""
        /\ \A j \in DOMAIN machine.body : IsDup2OfLiteral(machine.body[j])
        /\ machine.result.s = "Const")
       => pc \in {"body", "unify"}

C5_Witness ==
    /\ UnifyReturnedOk
    /\ DOMAIN local_env.var_types = {"d", "e"}
    /\ DeepResolve(subst, local_env.var_types["d"]) = Tuple(<<Num, Num>>)
    /\ DeepResolve(subst, local_env.var_types["e"]) = Tuple(<<String, String>>)

(* C6: Sqrt has the scheme Num -> Num: a definition with an empty body     *)
(* whose result pipes a numeric literal into Sqrt is not rejected.         *)
C6_SqrtOfNumChecks ==
    (/\ machine.body = <<>>
     /\ machine.result = Pipe(SConst("Num"), MBuiltin("Sqrt")))
    => pc # "err"

C8_UnboundMachineIsFatal ==
    /\ [](~(DefRefs(machine) \subseteq NamesUpTo(idx)) => pc \in {"body", "panic"})
    /\ [][(/\ pc = "body"
           /\ ~(MachineRefs(IF si < Len(machine.body)
                            THEN machine.body[si + 1].stream
                            ELSE machine.result) \subseteq NamesUpTo(idx)))
          => pc' = "panic"]_vars

C8_Witness ==
    /\ pc = "panic"
    /\ idx = 2
    /\ si = 2
    /\ machine.body[1] = Let(<<"x">>, SConst("Null"))
    /\ machine.body[2] = Consume(Pipe(SConst("Num"), MVar(NameOf(3))))

(* C9: check terminates: unify never builds a substitution in which an     *)
(* inference variable is reachable from itself, and neither unify_types    *)
(* nor free_unif_vars recurses without end.                                *)
C9_CheckTerminates ==
    /\ Acyclic(subst)
    /\ pc # "overflow"

(* C10: unify is sound: once a constraint has been processed, and as long  *)
(* as the substitution is acyclic, its two sides resolve to the same type; *)
(* constraints are taken one at a time in insertion order and a binding,   *)
(* once made, is never replaced.                                           *)
C10_UnifySound ==
    /\ []((pc = "unify" /\ Acyclic(subst)) =>
            \A j \in 1..ci :
                DeepResolve(subst, Constraints[j][1])
                    = DeepResolve(subst, Constraints[j][2]))
    /\ [][(pc = "unify" /\ pc' # "next") =>
            /\ ci' \in {ci, ci + 1}
            /\ \A a \in DOMAIN subst :
                  a \in DOMAIN subst' /\ subst'[a] = subst[a]]_vars

C10_Witness ==
    /\ UnifyReturnedOk
    /\ Acyclic(subst)
    /\ \E m, n \in 1..ci :
          /\ m < n
          /\ Constraints[m][1] = Constraints[n][1]
          /\ Constraints[m][1].k = "UnifVar"
    /\ \E a \in DOMAIN subst : subst[a].k = "UnifVar"

====
